---- MODULE Spec2Model ----
(***************************************************************************)
(* A model of zt_selector.py: the limit-up stock selector.                 *)
(*                                                                         *)
(* ZTSelector loads a configuration file, fetches the market quotes,       *)
(* filters them in five stages, scores and sorts the survivors, keeps the  *)
(* first top_count of them, writes them to a spreadsheet and optionally    *)
(* opens it.                                                               *)
(*                                                                         *)
(* Python values are modelled as records [t, n, s, l]: t is the Python     *)
(* type, n the number (fixed point, SCALE units per 1), s the characters   *)
(* of a string, l the elements of a list.  Every value carries all four    *)
(* fields so that any two values can be compared.                          *)
(***************************************************************************)
EXTENDS Integers, Sequences, FiniteSets, TLC

\* Longest list of quotes the market data source returns when the whole run
\* is explored, and when the filter settings are.
MaxStocks == 3
MaxQuotes == 2

\* Fixed-point resolution of the model's floats: 1.0 is SCALE.
SCALE == 1000

\* f6 and f20 are carried in millions of currency units; the code's
\* 100000000 (one hundred million) is then Yi of these.
Yi == 100

(***************************************************************************)
(* Python values                                                           *)
(***************************************************************************)
PyInt(k) == [t |-> "int", n |-> k * SCALE, s |-> <<>>, l |-> <<>>]
PyFloat(m) == [t |-> "float", n |-> m, s |-> <<>>, l |-> <<>>]
Bool(b) == [t |-> "bool", n |-> IF b THEN SCALE ELSE 0, s |-> <<>>, l |-> <<>>]
Str(cs) == [t |-> "str", n |-> 0, s |-> cs, l |-> <<>>]
List(vs) == [t |-> "list", n |-> 0, s |-> <<>>, l |-> vs]
None == [t |-> "none", n |-> 0, s |-> <<>>, l |-> <<>>]
\* A key that the dictionary does not hold.
Absent == [t |-> "absent", n |-> 0, s |-> <<>>, l |-> <<>>]

\* dict.get(key, default)
Get(d, key, default) == IF d[key] = Absent THEN default ELSE d[key]

\* isinstance(v, (int, float)); a Python bool is an int.
IsNumber(v) == v.t \in {"int", "float", "bool"}
\* isinstance(v, int)
IsInt(v) == v.t \in {"int", "bool"}
\* isinstance(v, bool), isinstance(v, str), isinstance(v, list)
IsBool(v) == v.t = "bool"
IsStr(v) == v.t = "str"
IsList(v) == v.t = "list"

\* bool(v)
Truthy(v) ==
    CASE IsNumber(v) -> v.n # 0
      [] IsStr(v) -> v.s # <<>>
      [] IsList(v) -> v.l # <<>>
      [] OTHER -> FALSE

Digits == {"0", "1", "2", "3", "4", "5", "6", "7", "8", "9"}

DigitVal(c) ==
    CASE c = "0" -> 0 [] c = "1" -> 1 [] c = "2" -> 2 [] c = "3" -> 3
      [] c = "4" -> 4 [] c = "5" -> 5 [] c = "6" -> 6 [] c = "7" -> 7
      [] c = "8" -> 8 [] c = "9" -> 9

RECURSIVE DigitsVal(_)
DigitsVal(cs) ==
    IF cs = <<>> THEN 0
    ELSE 10 * DigitsVal(SubSeq(cs, 1, Len(cs) - 1)) + DigitVal(cs[Len(cs)])

\* The value, in 1/SCALE, of the digits after the decimal point.
FracVal(cs) ==
    (IF Len(cs) >= 1 THEN DigitVal(cs[1]) * 100 ELSE 0)
    + (IF Len(cs) >= 2 THEN DigitVal(cs[2]) * 10 ELSE 0)
    + (IF Len(cs) >= 3 THEN DigitVal(cs[3]) ELSE 0)

AllDigits(cs) == \A i \in 1..Len(cs) : cs[i] \in Digits

\* The position of the first "." of cs, or 0.
DotAt(cs) ==
    IF \E i \in 1..Len(cs) : cs[i] = "."
    THEN CHOOSE i \in 1..Len(cs) : cs[i] = "." /\ \A j \in 1..(i - 1) : cs[j] # "."
    ELSE 0

\* float(str): an optional sign, digits, an optional point and digits, with a
\* digit somewhere; anything else is a ValueError (ok = FALSE).
ParseFloat(cs) ==
    LET neg == cs # <<>> /\ cs[1] = "-"
        body == IF neg THEN SubSeq(cs, 2, Len(cs)) ELSE cs
        dot == DotAt(body)
        whole == IF dot = 0 THEN body ELSE SubSeq(body, 1, dot - 1)
        frac == IF dot = 0 THEN <<>> ELSE SubSeq(body, dot + 1, Len(body))
        good == AllDigits(whole) /\ AllDigits(frac) /\ Len(whole) + Len(frac) > 0
        mag == DigitsVal(whole) * SCALE + FracVal(frac)
    IN  IF good THEN [ok |-> TRUE, v |-> IF neg THEN 0 - mag ELSE mag]
        ELSE [ok |-> FALSE, v |-> 0]

\* float(v): a number as it is, a string parsed, anything else a TypeError.
ToFloat(v) ==
    CASE IsNumber(v) -> [ok |-> TRUE, v |-> v.n]
      [] IsStr(v) -> ParseFloat(v.s)
      [] OTHER -> [ok |-> FALSE, v |-> 0]

\* str.replace(ch, '') for a single character ch.
Replace(cs, ch) == SelectSeq(cs, LAMBDA c : c # ch)

\* str.startswith(prefix)
StartsWith(cs, prefix) ==
    Len(prefix) <= Len(cs) /\ SubSeq(cs, 1, Len(prefix)) = prefix

\* 'ST' in name, for a string name
ContainsST(cs) == \E i \in 1..(Len(cs) - 1) : cs[i] = "S" /\ cs[i + 1] = "T"

\* a * b for two fixed-point numbers
Mul(a, b) == (a * b) \div SCALE

Min(a, b) == IF a <= b THEN a ELSE b

\* A Python string literal as the model's string: its characters.
S2 == <<"S", "T">>
S0 == <<"0">>
S6 == <<"6">>
S688 == <<"6", "8", "8">>
SOutput == <<"o", "u", "t", "p", "u", "t">>

(***************************************************************************)
(* load_config and _validate_config                                        *)
(***************************************************************************)
default_filter ==
    [max_price |-> PyInt(40),
     min_limit_up_percent |-> PyFloat(9500),
     exclude_st |-> Bool(TRUE),
     exclude_sci_tech_board |-> Bool(TRUE),
     stock_prefix |-> List(<<Str(S0), Str(S6)>>)]

default_score ==
    [base_score |-> PyInt(50),
     volume_ratio_weight |-> PyInt(5),
     turnover_rate_weight |-> PyInt(2),
     continuous_limit_up_weight |-> PyInt(10),
     amount_weight |-> PyInt(3),
     amount_max_score |-> PyInt(15)]

default_output ==
    [top_count |-> PyInt(10),
     output_dir |-> Str(SOutput),
     auto_open_excel |-> Bool(TRUE)]

default_config ==
    [filter |-> default_filter, score |-> default_score, output |-> default_output]

ScoreKeys ==
    <<"base_score", "volume_ratio_weight", "turnover_rate_weight",
      "continuous_limit_up_weight", "amount_weight", "amount_max_score">>

\* One group of the loaded JSON: kind is "absent" (no such key), "scalar" (a
\* value with no items()) or "dict"; d holds the group's values, Absent for a
\* key the file does not give.
\* for key, value in loaded_config[group].items(): if key in default: final[key] = value
MergeGroup(base, g) ==
    [k \in DOMAIN base |-> IF g.d[k] = Absent THEN base[k] ELSE g.d[k]]

ValidateFilter(f0) ==
    LET f1 == IF ~IsNumber(f0.max_price) \/ f0.max_price.n <= 0
              THEN [f0 EXCEPT !.max_price = PyInt(40)] ELSE f0
        f2 == IF ~IsNumber(f1.min_limit_up_percent)
                 \/ ~(0 <= f1.min_limit_up_percent.n
                      /\ f1.min_limit_up_percent.n <= 20 * SCALE)
              THEN [f1 EXCEPT !.min_limit_up_percent = PyFloat(9500)] ELSE f1
        f3 == IF ~IsBool(f2.exclude_st)
              THEN [f2 EXCEPT !.exclude_st = Bool(TRUE)] ELSE f2
        f4 == IF ~IsBool(f3.exclude_sci_tech_board)
              THEN [f3 EXCEPT !.exclude_sci_tech_board = Bool(TRUE)] ELSE f3
    IN  IF ~IsList(f4.stock_prefix) \/ Len(f4.stock_prefix.l) = 0
        THEN [f4 EXCEPT !.stock_prefix = List(<<Str(S0), Str(S6)>>)] ELSE f4

\* Line 162 assigns score_config[key] the value config["score"][key], and
\* score_config is config["score"]: the value stays what it was.
RECURSIVE ValidateScore(_, _)
ValidateScore(s0, i) ==
    IF i > Len(ScoreKeys) THEN s0
    ELSE LET key == ScoreKeys[i]
         IN  ValidateScore(
                 IF ~IsNumber(s0[key]) \/ s0[key].n < 0
                 THEN [s0 EXCEPT ![key] = s0[key]] ELSE s0,
                 i + 1)

\* ValidateTopCount with the check of lines 166-168 left out.
ValidateTopCountSkipped(o0) == o0

\* Lines 166-168.
ValidateTopCount(o0) ==
    IF ~IsInt(o0.top_count) \/ o0.top_count.n <= 0
    THEN [o0 EXCEPT !.top_count = PyInt(10)] ELSE o0

ValidateOutput(o0) ==
    LET o1 == ValidateTopCount(o0)
        o2 == IF ~IsStr(o1.output_dir) \/ ~Truthy(o1.output_dir)
              THEN [o1 EXCEPT !.output_dir = Str(SOutput)] ELSE o1
    IN  IF ~IsBool(o2.auto_open_excel)
        THEN [o2 EXCEPT !.auto_open_excel = Bool(TRUE)] ELSE o2

validate_config(c) ==
    [filter |-> ValidateFilter(c.filter),
     score |-> ValidateScore(c.score, 1),
     output |-> ValidateOutput(c.output)]

\* The configuration file: kind is "nofile", "badjson", "scalar" (JSON that is
\* no object) or "dict".  final_config is a shallow copy of default_config, so
\* the groups merged before an exception are in the default_config returned.
load_config(file) ==
    IF file.kind # "dict" THEN default_config
    ELSE IF file.filter.kind = "scalar" THEN default_config
    ELSE LET c1 == IF file.filter.kind = "dict"
                   THEN [default_config EXCEPT
                            !.filter = MergeGroup(default_filter, file.filter)]
                   ELSE default_config
         IN  IF file.score.kind = "scalar" THEN c1
             ELSE LET c2 == IF file.score.kind = "dict"
                            THEN [c1 EXCEPT
                                     !.score = MergeGroup(default_score, file.score)]
                            ELSE c1
                  IN  IF file.output.kind = "scalar" THEN c2
                      ELSE LET c3 == IF file.output.kind = "dict"
                                     THEN [c2 EXCEPT !.output =
                                              MergeGroup(default_output, file.output)]
                                     ELSE c2
                           IN  validate_config(c3)

(***************************************************************************)
(* filter_stocks.  A list of stocks is a sequence of references (indices)  *)
(* into the heap h of quote dictionaries, as Python lists hold references. *)
(***************************************************************************)

\* Lines 230-253: the filter settings as filter_stocks reads them; any
\* exception while reading them puts all five back to the defaults.
FilterSettings(f) ==
    LET mp == ToFloat(Get(f, "max_price", PyInt(40)))
        ml == ToFloat(Get(f, "min_limit_up_percent", PyFloat(9500)))
        sp == Get(f, "stock_prefix", List(<<Str(S0), Str(S6)>>))
    IN  IF mp.ok /\ ml.ok
        THEN [max_price |-> mp.v,
              min_limit_up_percent |-> ml.v,
              exclude_st |-> Truthy(Get(f, "exclude_st", Bool(TRUE))),
              exclude_sci_tech_board |->
                  Truthy(Get(f, "exclude_sci_tech_board", Bool(TRUE))),
              stock_prefix |-> IF ~IsList(sp) \/ Len(sp.l) = 0
                               THEN <<Str(S0), Str(S6)>> ELSE sp.l]
        ELSE [max_price |-> 40 * SCALE,
              min_limit_up_percent |-> 9500,
              exclude_st |-> TRUE,
              exclude_sci_tech_board |-> TRUE,
              stock_prefix |-> <<Str(S0), Str(S6)>>]

\* any(stock_code.startswith(prefix) for prefix in stock_prefix), from the
\* i-th prefix on: "yes", "no", or "raise" at a prefix that is no string.
RECURSIVE AnyPrefix(_, _, _)
AnyPrefix(code, prefixes, i) ==
    IF i > Len(prefixes) THEN "no"
    ELSE IF ~IsStr(prefixes[i]) THEN "raise"
    ELSE IF StartsWith(code, prefixes[i].s) THEN "yes"
    ELSE AnyPrefix(code, prefixes, i + 1)

\* Stage 1, lines 257-263: a code that is no string has no startswith, and an
\* exception skips the record.
PrefixStage(stock, prefixes) ==
    LET stock_code == Get(stock, "f12", Str(<<>>))
    IN  IsStr(stock_code) /\ AnyPrefix(stock_code.s, prefixes, 1) = "yes"

\* Stage 2, lines 269-275: 'ST' not in stock_name; a name that is neither a
\* string nor a list raises, which skips the record.
STStage(stock) ==
    LET stock_name == Get(stock, "f14", Str(<<>>))
    IN  CASE IsStr(stock_name) -> ~ContainsST(stock_name.s)
          [] IsList(stock_name) ->
                 \A i \in 1..Len(stock_name.l) : stock_name.l[i] # Str(S2)
          [] OTHER -> FALSE

\* Stage 3, lines 281-287.
BoardStage(stock) ==
    LET stock_code == Get(stock, "f12", Str(<<>>))
    IN  IsStr(stock_code) /\ ~StartsWith(stock_code.s, S688)

\* NormalizedPrice without the correction of lines 305-308.
NormalizedPriceUnscaled(stock) ==
    LET price_raw == Get(stock, "f2", PyInt(0))
        parsed == IF IsStr(price_raw) THEN ParseFloat(Replace(price_raw.s, ","))
                  ELSE ToFloat(price_raw)
    IN  [ok |-> parsed.ok, v |-> parsed.v]

\* Lines 299-308: the price of a quote; ok is FALSE when float() raises.
NormalizedPrice(stock) ==
    LET price_raw == Get(stock, "f2", PyInt(0))
        parsed == IF IsStr(price_raw) THEN ParseFloat(Replace(price_raw.s, ","))
                  ELSE ToFloat(price_raw)
        price == parsed.v
    IN  [ok |-> parsed.ok,
         v |-> IF price < 1 * SCALE THEN price * 1000
               ELSE IF price > 1000 * SCALE THEN price \div 1000
               ELSE price]

\* Stage 4, lines 291-316.
PriceStage(stock, max_price) ==
    LET price == NormalizedPrice(stock)
    IN  price.ok /\ price.v <= max_price

\* Lines 329-332: the percentage change of a quote.
NormalizedChange(stock) ==
    LET change_percent_raw == Get(stock, "f3", PyInt(0))
    IN  IF IsStr(change_percent_raw)
        THEN ParseFloat(Replace(change_percent_raw.s, "%"))
        ELSE ToFloat(change_percent_raw)

\* Stage 5, lines 321-340.
LimitUpStage(stock, min_limit_up_percent) ==
    LET change_percent == NormalizedChange(stock)
    IN  change_percent.ok /\ change_percent.v >= min_limit_up_percent

prefix_filtered(h, stock_list, cfg) ==
    SelectSeq(stock_list, LAMBDA i : PrefixStage(h[i], cfg.stock_prefix))

\* Lines 266-275.
non_st_stocks(h, stock_list, cfg) ==
    IF cfg.exclude_st
    THEN SelectSeq(prefix_filtered(h, stock_list, cfg), LAMBDA i : STStage(h[i]))
    ELSE prefix_filtered(h, stock_list, cfg)

filtered_stocks(h, stock_list, cfg) ==
    IF cfg.exclude_sci_tech_board
    THEN SelectSeq(non_st_stocks(h, stock_list, cfg), LAMBDA i : BoardStage(h[i]))
    ELSE non_st_stocks(h, stock_list, cfg)

low_price_stocks(h, stock_list, cfg) ==
    SelectSeq(filtered_stocks(h, stock_list, cfg),
              LAMBDA i : PriceStage(h[i], cfg.max_price))

filter_stocks(h, stock_list, f) ==
    IF stock_list = <<>> THEN <<>>
    ELSE LET cfg == FilterSettings(f)
         IN  SelectSeq(low_price_stocks(h, stock_list, cfg),
                       LAMBDA i : LimitUpStage(h[i], cfg.min_limit_up_percent))

(***************************************************************************)
(* score_stocks                                                            *)
(***************************************************************************)

\* Lines 213-216.
calculate_continuous_limit_up(stock_code) == 1

\* MarketCapBonus with the upper ends of the two ranges left out.
MarketCapBonusOpenEnded(market_cap) ==
    IF 10 * SCALE <= market_cap /\ market_cap < 50 * SCALE THEN 10 * SCALE
    ELSE IF 50 * SCALE <= market_cap /\ market_cap < 100 * SCALE THEN 5 * SCALE
    ELSE 0

\* Lines 393-396: the bonus for a float market cap of 10 to 50, or 50 to 100.
MarketCapBonus(market_cap) ==
    IF 10 * SCALE <= market_cap /\ market_cap <= 50 * SCALE THEN 10 * SCALE
    ELSE IF 50 * SCALE < market_cap /\ market_cap <= 100 * SCALE THEN 5 * SCALE
    ELSE 0

\* Lines 368-372: the numbers score_stocks reads from one quote; ok is FALSE
\* when one of the float() calls raises.
ScoreInputs(stock) ==
    LET f3 == ToFloat(Get(stock, "f3", PyInt(0)))
        f10 == ToFloat(Get(stock, "f10", PyInt(0)))
        f8 == ToFloat(Get(stock, "f8", PyInt(0)))
        f6 == ToFloat(Get(stock, "f6", PyInt(0)))
        f20 == ToFloat(Get(stock, "f20", PyInt(0)))
    IN  [ok |-> f3.ok /\ f10.ok /\ f8.ok /\ f6.ok /\ f20.ok,
         change_percent |-> f3.v,
         volume_ratio |-> f10.v,
         turnover_rate |-> f8.v,
         amount |-> f6.v \div Yi,
         market_cap |-> f20.v \div Yi]

\* Lines 365-396: score starts at 0 and the parts are added one by one.
\* Arithmetic with a weight that is no number raises a TypeError.
ScoreOf(in, sc, continuous_limit_up) ==
    LET s0 == 0
        s1 == s0 + sc.base_score.n
        s2 == s1 + Mul(in.volume_ratio, sc.volume_ratio_weight.n)
        s3 == s2 + Mul(in.turnover_rate, sc.turnover_rate_weight.n)
        s4 == s3 + continuous_limit_up * sc.continuous_limit_up_weight.n
        s5 == s4 + Min(Mul(in.amount, sc.amount_weight.n), sc.amount_max_score.n)
    IN  s5 + MarketCapBonus(in.market_cap)

WeightsAreNumbers(sc) == \A i \in 1..Len(ScoreKeys) : IsNumber(sc[ScoreKeys[i]])

\* ReasonOf with the five thresholds included in their ranges.
ReasonOfInclusive(in, continuous_limit_up) ==
    LET reason ==
            (IF in.volume_ratio >= 1500 THEN <<"volume_ratio">> ELSE <<>>)
         \o (IF in.turnover_rate >= 3 * SCALE THEN <<"turnover_rate">> ELSE <<>>)
         \o (IF continuous_limit_up >= 1 THEN <<"continuous_limit_up">> ELSE <<>>)
         \o (IF 10 * SCALE <= in.market_cap /\ in.market_cap <= 50 * SCALE
             THEN <<"market_cap">> ELSE <<>>)
         \o (IF in.amount >= 5 * SCALE THEN <<"amount">> ELSE <<>>)
    IN  IF reason # <<>> THEN reason ELSE <<"composite score">>

\* Lines 399-409 and 412: the clauses of the reason, in order.
ReasonOf(in, continuous_limit_up) ==
    LET reason ==
            (IF in.volume_ratio > 1500 THEN <<"volume_ratio">> ELSE <<>>)
         \o (IF in.turnover_rate > 3 * SCALE THEN <<"turnover_rate">> ELSE <<>>)
         \o (IF continuous_limit_up > 1 THEN <<"continuous_limit_up">> ELSE <<>>)
         \o (IF 10 * SCALE <= in.market_cap /\ in.market_cap <= 50 * SCALE
             THEN <<"market_cap">> ELSE <<>>)
         \o (IF in.amount > 5 * SCALE THEN <<"amount">> ELSE <<>>)
    IN  IF reason # <<>> THEN reason ELSE <<"composite score">>

\* Annotate with the new score added to the score the quote already carries.
AnnotateAccumulating(stock, in, sc) ==
    LET continuous_limit_up ==
            calculate_continuous_limit_up(Get(stock, "f12", Str(<<>>)))
    IN  [stock EXCEPT
            !.score = PyFloat(Get(stock, "score", PyInt(0)).n
                              + ScoreOf(in, sc, continuous_limit_up)),
            !.reason = Str(ReasonOf(in, continuous_limit_up)),
            !.continuous_limit_up = PyInt(continuous_limit_up)]

\* Lines 411-413: the three fields attached to the quote, in place.
Annotate(stock, in, sc) ==
    LET continuous_limit_up ==
            calculate_continuous_limit_up(Get(stock, "f12", Str(<<>>)))
    IN  [stock EXCEPT
            !.score = PyFloat(ScoreOf(in, sc, continuous_limit_up)),
            !.reason = Str(ReasonOf(in, continuous_limit_up)),
            !.continuous_limit_up = PyInt(continuous_limit_up)]

\* InsertByScore for a sort that puts a quote before the quotes of its score.
InsertByScoreUnstable(h, sorted, i) ==
    LET ahead == {k \in 1..Len(sorted) : h[sorted[k]].score.n > h[i].score.n}
        at == IF ahead = {} THEN 0 ELSE CHOOSE k \in ahead : \A j \in ahead : j <= k
    IN  SubSeq(sorted, 1, at) \o <<i>> \o SubSeq(sorted, at + 1, Len(sorted))

\* list.sort(key=score, reverse=True) is stable: a quote goes behind every
\* quote already placed whose score is not smaller.
InsertByScore(h, sorted, i) ==
    LET ahead == {k \in 1..Len(sorted) : h[sorted[k]].score.n >= h[i].score.n}
        at == IF ahead = {} THEN 0 ELSE CHOOSE k \in ahead : \A j \in ahead : j <= k
    IN  SubSeq(sorted, 1, at) \o <<i>> \o SubSeq(sorted, at + 1, Len(sorted))

RECURSIVE SortByScore(_, _)
SortByScore(h, list) ==
    IF list = <<>> THEN <<>>
    ELSE InsertByScore(h, SortByScore(h, SubSeq(list, 1, Len(list) - 1)),
                       list[Len(list)])

\* Lines 364-415, from the k-th quote of stock_list on: the heap with the
\* quotes annotated so far, and whether a quote raised.
RECURSIVE ScoreLoop(_, _, _, _)
ScoreLoop(h, stock_list, sc, k) ==
    IF k > Len(stock_list) THEN [h |-> h, raised |-> FALSE]
    ELSE LET i == stock_list[k]
             in == ScoreInputs(h[i])
         IN  IF ~in.ok \/ ~WeightsAreNumbers(sc) THEN [h |-> h, raised |-> TRUE]
             ELSE ScoreLoop([h EXCEPT ![i] = Annotate(h[i], in, sc)],
                            stock_list, sc, k + 1)

\* Lines 349-419: the heap after scoring, the sorted list and whether the
\* call raised (it then returns nothing).
score_stocks(h, stock_list, sc) ==
    IF stock_list = <<>> THEN [h |-> h, out |-> <<>>, raised |-> FALSE]
    ELSE LET r == ScoreLoop(h, stock_list, sc, 1)
         IN  [h |-> r.h,
              out |-> IF r.raised THEN <<>> ELSE SortByScore(r.h, stock_list),
              raised |-> r.raised]

(***************************************************************************)
(* save_to_excel and the slice of run                                      *)
(***************************************************************************)

\* recommended_stocks[:top_count]: a slice takes an int (or None); with any
\* other bound it raises a TypeError.
Slice(list, top_count) ==
    LET k == top_count.n \div SCALE
        n == Len(list)
    IN  CASE top_count = None -> [ok |-> TRUE, v |-> list]
          [] IsInt(top_count) /\ k >= 0 -> [ok |-> TRUE, v |-> SubSeq(list, 1, Min(k, n))]
          [] IsInt(top_count) /\ k < 0 -> [ok |-> TRUE, v |-> SubSeq(list, 1, n + k)]
          [] OTHER -> [ok |-> FALSE, v |-> <<>>]

\* Lines 530-543: one row of the sheet.
ExcelRow(stock) ==
    [code |-> Get(stock, "f12", Str(<<>>)),
     name |-> Get(stock, "f14", Str(<<>>)),
     price |-> Get(stock, "f2", PyInt(0)),
     change_percent |-> Get(stock, "f3", PyInt(0)),
     amount |-> PyFloat(Get(stock, "f6", PyInt(0)).n \div Yi),
     turnover_rate |-> Get(stock, "f8", PyInt(0)),
     volume_ratio |-> Get(stock, "f10", PyInt(0)),
     market_cap |-> PyFloat(Get(stock, "f20", PyInt(0)).n \div Yi),
     continuous_limit_up |-> Get(stock, "continuous_limit_up", PyInt(1)),
     score |-> Get(stock, "score", PyInt(0)),
     reason |-> Get(stock, "reason", Str(<<>>))]

\* Lines 535 and 538 divide f6 and f20 themselves: a value that is no number
\* raises, and save_to_excel returns None.
RowRaises(stock) ==
    ~IsNumber(Get(stock, "f6", PyInt(0))) \/ ~IsNumber(Get(stock, "f20", PyInt(0)))

\* Lines 520-565: the rows written, or ok = FALSE when the method returns None;
\* io_ok is whether the directory and the file could be written.
save_to_excel(h, stock_list, io_ok) ==
    IF stock_list = <<>>
       \/ (\E k \in 1..Len(stock_list) : RowRaises(h[stock_list[k]]))
       \/ ~io_ok
    THEN [ok |-> FALSE, rows |-> <<>>]
    ELSE [ok |-> TRUE, rows |-> [k \in 1..Len(stock_list) |-> ExcelRow(h[stock_list[k]])]]

(***************************************************************************)
(* The program: the constructor, then run() step by step.                  *)
(***************************************************************************)
VARIABLES
    config_file,        \* the configuration file on disk
    market,             \* what get_market_data will return: None or a list
    config,             \* self.config
    stocks,             \* the heap of quote dictionaries
    stock_list,         \* run's locals: lists of references into stocks
    limit_up_stocks,
    recommended_stocks,
    top_stocks,
    excel_file,         \* "none" or "file"
    excel_rows,         \* the rows of the written sheet
    opened,             \* whether the sheet was opened
    error,              \* the step whose exception run() caught, or "none"
    trace,              \* the steps run() has called, in order
    pc                  \* "new", then "fetch" ... "done"

vars == <<config_file, market, config, stocks, stock_list, limit_up_stocks,
          recommended_stocks, top_stocks, excel_file, excel_rows, opened,
          error, trace, pc>>

inputs == <<config_file, market>>

\* An element of the fetched list that is a dictionary: a quote.  Any other
\* element is a value.
IsDict(stock) == "t" \notin DOMAIN stock

\* Lines 257-263: stock.get raises an AttributeError for an element that is
\* no dictionary; the handler formats stock.get('f12', 'unknown') into its
\* warning, which raises again, and this exception leaves filter_stocks.
filter_raises(h, list) == \E k \in 1..Len(list) : ~IsDict(h[list[k]])

\* Lines 29-43.
Construct ==
    /\ pc = "new"
    /\ config' = load_config(config_file)
    /\ pc' = "fetch"
    /\ UNCHANGED <<inputs, stocks, stock_list, limit_up_stocks, recommended_stocks,
                   top_stocks, excel_file, excel_rows, opened, error, trace>>

\* Lines 431-439.  The output directory may have gone since the construction
\* and os.makedirs may fail: the handler of line 517 ends the run before the
\* fetch.  get_market_data returns None for every failure of its own.
RunFetch ==
    /\ pc = "fetch"
    /\ \E dir_ok \in BOOLEAN :
          IF dir_ok
          THEN /\ trace' = Append(trace, "fetch")
               /\ error' = error
               /\ IF market = None \/ market.l = <<>>
                  THEN /\ pc' = "done"
                       /\ UNCHANGED <<stocks, stock_list>>
                  ELSE /\ stocks' = market.l
                       /\ stock_list' = [i \in 1..Len(market.l) |-> i]
                       /\ pc' = "filter"
          ELSE /\ error' = "makedirs"
               /\ pc' = "done"
               /\ UNCHANGED <<stocks, stock_list, trace>>
    /\ UNCHANGED <<inputs, config, limit_up_stocks, recommended_stocks, top_stocks,
                   excel_file, excel_rows, opened>>

\* RunFilter without the return of lines 447-449.
RunFilterUnguarded ==
    /\ pc = "filter"
    /\ trace' = Append(trace, "filter")
    /\ limit_up_stocks' = filter_stocks(stocks, stock_list, config.filter)
    /\ pc' = "score"
    /\ UNCHANGED <<inputs, config, stocks, stock_list, recommended_stocks, top_stocks,
                   excel_file, excel_rows, opened, error>>

\* Lines 444-449; an exception of filter_stocks is caught at lines 517-518.
RunFilter ==
    /\ pc = "filter"
    /\ trace' = Append(trace, "filter")
    /\ IF filter_raises(stocks, stock_list)
       THEN /\ error' = "filter"
            /\ pc' = "done"
            /\ UNCHANGED limit_up_stocks
       ELSE /\ limit_up_stocks' = filter_stocks(stocks, stock_list, config.filter)
            /\ pc' = IF limit_up_stocks' = <<>> THEN "done" ELSE "score"
            /\ error' = error
    /\ UNCHANGED <<inputs, config, stocks, stock_list, recommended_stocks, top_stocks,
                   excel_file, excel_rows, opened>>

\* RunScore outside the try of line 423: the exception of score_stocks leaves
\* run, which pc = "raised" records.
RunScoreUncaught ==
    /\ pc = "score"
    /\ trace' = Append(trace, "score")
    /\ LET r == score_stocks(stocks, limit_up_stocks, config.score)
       IN  /\ stocks' = r.h
           /\ recommended_stocks' = r.out
           /\ error' = IF r.raised THEN "score" ELSE error
           /\ pc' = IF r.raised THEN "raised" ELSE "truncate"
    /\ UNCHANGED <<inputs, config, stock_list, limit_up_stocks, top_stocks,
                   excel_file, excel_rows, opened>>

\* Line 452; an exception of score_stocks is caught at lines 517-518.
RunScore ==
    /\ pc = "score"
    /\ trace' = Append(trace, "score")
    /\ LET r == score_stocks(stocks, limit_up_stocks, config.score)
       IN  /\ stocks' = r.h
           /\ recommended_stocks' = r.out
           /\ error' = IF r.raised THEN "score" ELSE error
           /\ pc' = IF r.raised THEN "done" ELSE "truncate"
    /\ UNCHANGED <<inputs, config, stock_list, limit_up_stocks, top_stocks,
                   excel_file, excel_rows, opened>>

\* Lines 455-460.
RunTruncate ==
    /\ pc = "truncate"
    /\ trace' = Append(trace, "truncate")
    /\ LET r == Slice(recommended_stocks, config.output.top_count)
       IN  /\ top_stocks' = r.v
           /\ error' = IF r.ok THEN error ELSE "truncate"
           /\ pc' = IF r.ok /\ r.v # <<>> THEN "save" ELSE "done"
    /\ UNCHANGED <<inputs, config, stocks, stock_list, limit_up_stocks,
                   recommended_stocks, excel_file, excel_rows, opened>>

\* Line 463 and the test of line 475.
RunSave ==
    /\ pc = "save"
    /\ trace' = Append(trace, "save")
    /\ \E io_ok \in BOOLEAN :
          LET r == save_to_excel(stocks, top_stocks, io_ok)
          IN  /\ excel_file' = IF r.ok THEN "file" ELSE "none"
              /\ excel_rows' = r.rows
    /\ pc' = IF Truthy(config.output.auto_open_excel) THEN "open" ELSE "done"
    /\ UNCHANGED <<inputs, config, stocks, stock_list, limit_up_stocks,
                   recommended_stocks, top_stocks, opened, error>>

\* Lines 476-515: os.path.exists(None) raises, and so may the opening; the
\* handler at line 513 catches both.
RunOpen ==
    /\ pc = "open"
    /\ trace' = Append(trace, "open")
    /\ \E open_ok \in BOOLEAN : opened' = (excel_file = "file" /\ open_ok)
    /\ pc' = "done"
    /\ UNCHANGED <<inputs, config, stocks, stock_list, limit_up_stocks,
                   recommended_stocks, top_stocks, excel_file, excel_rows, error>>

Next ==
    \/ Construct
    \/ RunFetch
    \/ RunFilter
    \/ RunScore
    \/ RunTruncate
    \/ RunSave
    \/ RunOpen

(***************************************************************************)
(* Inputs: configuration files and market data                             *)
(***************************************************************************)
AllAbsent(base) == [k \in DOMAIN base |-> Absent]
AbsentGroup(base) == [kind |-> "absent", d |-> AllAbsent(base)]
ScalarGroup(base) == [kind |-> "scalar", d |-> AllAbsent(base)]
DictGroups(ds) == {[kind |-> "dict", d |-> d] : d \in ds}

NoFilter == AbsentGroup(default_filter)
NoScore == AbsentGroup(default_score)
NoOutput == AbsentGroup(default_output)

JsonFiles(fs, ss, os) ==
    [kind : {"dict"}, filter : fs, score : ss, output : os]
OtherFile(kind) ==
    [kind |-> kind, filter |-> NoFilter, score |-> NoScore, output |-> NoOutput]

Quote(f12, f14, f2, f3, f10, f8, f6, f20) ==
    [f12 |-> f12, f14 |-> f14, f2 |-> f2, f3 |-> f3, f10 |-> f10, f8 |-> f8,
     f6 |-> f6, f20 |-> f20,
     score |-> Absent, reason |-> Absent, continuous_limit_up |-> Absent]

\* The lists of at most max quotes of a pool.
Lists(pool, max) == UNION {[1..n -> pool] : n \in 0..max}
Markets(pool, max) == {None} \cup {List(l) : l \in Lists(pool, max)}

InitWith(files, pool, max) ==
    /\ config_file \in files
    /\ market \in Markets(pool, max)
    /\ config = default_config
    /\ stocks = <<>>
    /\ stock_list = <<>>
    /\ limit_up_stocks = <<>>
    /\ recommended_stocks = <<>>
    /\ top_stocks = <<>>
    /\ excel_file = "none"
    /\ excel_rows = <<>>
    /\ opened = FALSE
    /\ error = "none"
    /\ trace = <<>>
    /\ pc = "new"

\* Quotes that differ in what score_stocks and save_to_excel read.  The first
\* is the quote of volume ratio 2, turnover rate 4, amount 6 and float cap 30.
RunPool ==
    {Quote(Str(<<"0", "0", "1">>), Str(<<"A">>), PyFloat(10500), PyInt(10),
           PyInt(2), PyInt(4), PyInt(600), PyInt(3000)),
     Quote(Str(<<"6", "0", "2">>), Str(<<"B">>), Str(<<"1", "2", ".", "5">>),
           Str(<<"1", "0", ".", "0", "1">>),
           PyInt(2), PyInt(4), PyInt(500), PyInt(1000)),
     Quote(Str(<<"0", "0", "3">>), Str(<<"C">>), PyInt(8), PyFloat(9500),
           PyInt(1), PyInt(1), PyInt(100), PyInt(10000)),
     Quote(Str(<<"6", "0", "4">>), Str(<<"D">>), PyInt(20), PyInt(10),
           Str(<<"2", ".", "5">>), PyInt(0), PyInt(0), PyInt(5000)),
     Quote(Str(<<"0", "0", "5">>), Str(<<"E">>), PyInt(9), Str(<<"1", "0", ".", "5", "%">>),
           PyInt(2), PyInt(4), PyInt(600), PyInt(3000)),
     Quote(Str(<<"0", "0", "6">>), Str(<<"F">>), PyInt(9), PyInt(10),
           PyInt(3), PyInt(4), Str(<<"6", "0", "0">>), PyInt(3000)),
     Quote(Str(<<"0", "0", "7">>), Str(<<"G">>), PyInt(9), PyInt(5),
           PyInt(2), PyInt(4), PyInt(600), PyInt(3000))}

RunScoreGroups ==
    {NoScore}
    \cup DictGroups(
        {[AllAbsent(default_score) EXCEPT !.amount_max_score = PyInt(100),
                                          !.volume_ratio_weight = PyFloat(2500)],
         [base_score |-> PyInt(0), volume_ratio_weight |-> PyInt(0),
          turnover_rate_weight |-> PyInt(0), continuous_limit_up_weight |-> PyInt(0),
          amount_weight |-> PyInt(0), amount_max_score |-> PyInt(0)],
         [AllAbsent(default_score) EXCEPT !.amount_weight = Str(<<"x">>)]})

RunOutputGroups ==
    DictGroups([top_count : {Absent, PyInt(1), PyInt(2), PyInt(0 - 1)},
                output_dir : {Absent},
                auto_open_excel : {Absent}]
               \cup {[AllAbsent(default_output) EXCEPT !.auto_open_excel = Bool(FALSE)]})

RunFiles == JsonFiles({NoFilter}, RunScoreGroups, RunOutputGroups)

\* Quotes that differ in what filter_stocks reads.
FilterPool ==
    {Quote(Str(<<"0", "0", "1">>), Str(<<"A", "B">>), PyFloat(10500), PyInt(10),
           PyInt(2), PyInt(4), PyInt(600), PyInt(3000)),
     Quote(Str(<<"6", "0", "2">>), Str(<<"*", "S", "T", "B">>),
           Str(<<"1", "2", ".", "5">>), Str(<<"1", "0", ".", "0", "1", "%">>),
           PyInt(2), PyInt(4), PyInt(600), PyInt(3000)),
     Quote(Str(<<"6", "8", "8", "1">>), Str(<<"K", "C">>),
           Str(<<"1", ",", "2", "3", "4">>), PyInt(20),
           PyInt(2), PyInt(4), PyInt(600), PyInt(3000)),
     Quote(Str(<<"3", "0", "1">>), Str(<<"S", "T", "C">>), PyFloat(50), PyFloat(9500),
           PyInt(2), PyInt(4), PyInt(600), PyInt(3000)),
     Quote(Str(<<"0", "0", "5">>), None, PyInt(45), Str(<<"5", "%">>),
           PyInt(2), PyInt(4), PyInt(600), PyInt(3000)),
     Quote(Str(<<"6", "0", "6">>), Str(<<"E", "F">>), Str(<<"-">>), PyInt(10),
           PyInt(2), PyInt(4), PyInt(600), PyInt(3000))}

FilterGroups ==
    DictGroups([max_price : {Absent, PyInt(60), PyInt(0 - 1), Str(<<"x">>)},
                min_limit_up_percent : {Absent, PyInt(0)},
                exclude_st : {Absent, Bool(FALSE)},
                exclude_sci_tech_board : {Absent, Bool(FALSE)},
                stock_prefix : {Absent, List(<<Str(<<"3">>)>>), Str(<<"3">>),
                                List(<<Str(S6), PyInt(0)>>), List(<<>>)}])

\* With a score group that has no items(), load_config returns the filter
\* group as merged, not validated.
FilterFiles == JsonFiles(FilterGroups, {NoScore, ScalarGroup(default_score)}, {NoOutput})

Init == InitWith(RunFiles, RunPool, MaxStocks)

Spec == Init /\ [][Next]_vars

InitFilter == InitWith(FilterFiles, FilterPool, MaxQuotes)

\* Configuration files with values that break the rules of _validate_config,
\* one group at a time, and files that are no JSON object or have a group
\* that is none.
ConfigFilterGroups ==
    DictGroups([max_price : {Absent, PyInt(60), PyInt(0), Str(<<"x">>)},
                min_limit_up_percent : {Absent, PyInt(25), None},
                exclude_st : {Absent, PyInt(1)},
                exclude_sci_tech_board : {Absent, Str(<<"n", "o">>)},
                stock_prefix : {Absent, List(<<>>), Str(<<"3">>)}])

ConfigScoreGroups ==
    DictGroups([base_score : {Absent, PyInt(0 - 5), Str(<<"x">>)},
                volume_ratio_weight : {Absent, PyInt(0 - 5)},
                turnover_rate_weight : {Absent, None},
                continuous_limit_up_weight : {Absent, PyInt(0 - 5)},
                amount_weight : {Absent, Str(<<"x">>)},
                amount_max_score : {Absent, PyInt(0 - 5)}])

ConfigOutputGroups ==
    DictGroups([top_count : {Absent, PyInt(0), PyFloat(2500), Str(<<"3">>)},
                output_dir : {Absent, Str(<<>>), PyInt(5)},
                auto_open_excel : {Absent, PyInt(0), None}])

ConfigFiles ==
    JsonFiles(ConfigFilterGroups, {NoScore, ScalarGroup(default_score)}, {NoOutput})
    \cup JsonFiles({NoFilter}, ConfigScoreGroups, {NoOutput, ScalarGroup(default_output)})
    \cup JsonFiles({NoFilter, ScalarGroup(default_filter)}, {NoScore},
                   ConfigOutputGroups \cup {ScalarGroup(default_output)})
    \cup {OtherFile("nofile"), OtherFile("badjson"), OtherFile("scalar")}

\* The quote of the scenario alone.
ConfigPool ==
    {Quote(Str(<<"0", "0", "1">>), Str(<<"A">>), PyFloat(10500), PyInt(10),
           PyInt(2), PyInt(4), PyInt(600), PyInt(3000))}

InitConfig == InitWith(ConfigFiles, ConfigPool, 1)

SpecConfig == InitConfig /\ [][Next]_vars

SpecFilter == InitFilter /\ [][Next]_vars

(***************************************************************************)
(* Properties of the run                                                   *)
(***************************************************************************)
InTrace(step) == \E k \in 1..Len(trace) : trace[k] = step

\* score_stocks has returned a list.
Scored == InTrace("score") /\ error # "score"

\* The score of the k-th quote of a list.
ScoreAt(list, k) == stocks[list[k]].score.n

\* C4: every candidate gets the score base_score + volume_ratio * weight
\* + turnover_rate * weight + 1 * continuous weight + min(amount * weight,
\* amount_max_score) + market cap bonus (10 for a cap of 10 to 50, 5 for a cap
\* above 50 up to 100, else 0), with one consecutive limit-up day; the quote of
\* volume ratio 2, turnover rate 4, amount 6 and cap 30 scores 103 with the
\* default weights.
C4_ScoreFormula ==
    /\ \A i \in 1..Len(stocks) :
          stocks[i].score # Absent =>
             LET w == config.score
                 volume_ratio == ToFloat(stocks[i].f10).v
                 turnover_rate == ToFloat(stocks[i].f8).v
                 amount == ToFloat(stocks[i].f6).v \div Yi
                 cap == ToFloat(stocks[i].f20).v \div Yi
                 bonus == IF 10 * SCALE <= cap /\ cap <= 50 * SCALE THEN 10 * SCALE
                          ELSE IF 50 * SCALE < cap /\ cap <= 100 * SCALE THEN 5 * SCALE
                          ELSE 0
             IN  /\ stocks[i].continuous_limit_up = PyInt(1)
                 /\ stocks[i].score.n =
                        w.base_score.n
                        + Mul(volume_ratio, w.volume_ratio_weight.n)
                        + Mul(turnover_rate, w.turnover_rate_weight.n)
                        + 1 * w.continuous_limit_up_weight.n
                        + Min(Mul(amount, w.amount_weight.n), w.amount_max_score.n)
                        + bonus
                 /\ (w = default_score /\ volume_ratio = 2 * SCALE
                     /\ turnover_rate = 4 * SCALE /\ amount = 6 * SCALE
                     /\ cap = 30 * SCALE)
                    => stocks[i].score.n = 103 * SCALE
    /\ Scored => \A k \in 1..Len(limit_up_stocks) :
                     stocks[limit_up_stocks[k]].score # Absent

\* The quote of the scenario has been scored with the default weights, next to
\* a quote with a cap of exactly 50.
C4_Witness ==
    /\ pc = "done"
    /\ config.score = default_score
    /\ \E i, j \in 1..Len(stocks) :
          /\ stocks[i].score = PyFloat(103 * SCALE)
          /\ ToFloat(stocks[i].f6).v \div Yi = 6 * SCALE
          /\ stocks[j].score # Absent
          /\ ToFloat(stocks[j].f20).v \div Yi = 50 * SCALE

\* C5: the ranked list holds the candidates in non-increasing order of score,
\* and candidates of equal score in the order of the list that was filtered;
\* the filter keeps that order.
C5_RankedStable ==
    /\ \A a, b \in 1..Len(limit_up_stocks) :
          a < b => limit_up_stocks[a] < limit_up_stocks[b]
    /\ Scored =>
          /\ Len(recommended_stocks) = Len(limit_up_stocks)
          /\ {recommended_stocks[k] : k \in 1..Len(recommended_stocks)}
                = {limit_up_stocks[k] : k \in 1..Len(limit_up_stocks)}
          /\ \A a, b \in 1..Len(recommended_stocks) :
                a < b =>
                   /\ ScoreAt(recommended_stocks, a) >= ScoreAt(recommended_stocks, b)
                   /\ ScoreAt(recommended_stocks, a) = ScoreAt(recommended_stocks, b)
                      => recommended_stocks[a] < recommended_stocks[b]
          /\ \A a, b \in 1..Len(top_stocks) :
                a < b =>
                   /\ ScoreAt(top_stocks, a) >= ScoreAt(top_stocks, b)
                   /\ ScoreAt(top_stocks, a) = ScoreAt(top_stocks, b)
                      => top_stocks[a] < top_stocks[b]

\* Three candidates were ranked, the sort moved one of them, and two of them
\* have the same score.
C5_Witness ==
    /\ pc = "done"
    /\ Scored
    /\ Len(recommended_stocks) = 3
    /\ recommended_stocks # limit_up_stocks
    /\ \E a, b \in 1..3 :
          a < b /\ ScoreAt(recommended_stocks, a) = ScoreAt(recommended_stocks, b)

\* C6: with the validated top_count, a positive integer, the list handed to
\* save_to_excel has min(number of candidates, top_count) quotes and is the
\* start of the ranked list, and the slice does not raise.
C6_TopCount ==
    InTrace("truncate") =>
       LET top_count == config.output.top_count
       IN  /\ error # "truncate"
           /\ IsInt(top_count) /\ top_count.n > 0
           /\ Len(top_stocks)
                 = Min(Len(recommended_stocks), top_count.n \div SCALE)
           /\ top_stocks = SubSeq(recommended_stocks, 1, Len(top_stocks))
           /\ InTrace("save") => top_stocks # <<>>
           /\ excel_file = "file" => Len(excel_rows) = Len(top_stocks)

\* The sheet was written with fewer quotes than were ranked.
C6_Witness ==
    /\ pc = "done"
    /\ excel_file = "file"
    /\ Len(excel_rows) = 2
    /\ Len(recommended_stocks) = 3

\* C7: a quote with a field that cannot be parsed does not end the run: every
\* other quote that passes the filter is still scored and handed to the writer.
C7_BadQuoteOnlyExcluded ==
    (pc = "done" /\ WeightsAreNumbers(config.score)) =>
       \A k \in 1..Len(limit_up_stocks) :
          ScoreInputs(stocks[limit_up_stocks[k]]).ok =>
             /\ stocks[limit_up_stocks[k]].score # Absent
             /\ InTrace("save")

FetchEmpty == market = None \/ market.l = <<>>

\* C9: after an empty or absent fetch result, and after a filter that keeps no
\* quote, run() has ended: nothing was scored or written and nothing raised;
\* a stage of the filter that keeps no quote makes the result the empty list.
C9_EmptyEndsQuietly ==
    /\ (InTrace("fetch") /\ FetchEmpty) =>
          /\ pc = "done" /\ trace = <<"fetch">>
          /\ excel_file = "none" /\ excel_rows = <<>> /\ error = "none"
    /\ (InTrace("filter") /\ limit_up_stocks = <<>>) =>
          /\ pc = "done" /\ trace = <<"fetch", "filter">>
          /\ excel_file = "none" /\ excel_rows = <<>> /\ error = "none"
          /\ \A i \in 1..Len(stocks) : stocks[i].score = Absent
    /\ InTrace("filter") =>
          LET cfg == FilterSettings(config.filter)
          IN  (\/ prefix_filtered(stocks, stock_list, cfg) = <<>>
               \/ non_st_stocks(stocks, stock_list, cfg) = <<>>
               \/ filtered_stocks(stocks, stock_list, cfg) = <<>>
               \/ low_price_stocks(stocks, stock_list, cfg) = <<>>)
              => limit_up_stocks = <<>>

\* Three quotes were fetched and the filter kept none of them.
C9_Witness ==
    /\ pc = "done"
    /\ Len(stock_list) = 3
    /\ InTrace("filter")
    /\ limit_up_stocks = <<>>

\* filter_stocks, score_stocks and the slice, called again on the list that
\* was fetched, with the quotes as the run has left them.
SecondPass ==
    LET f == filter_stocks(stocks, stock_list, config.filter)
        s == score_stocks(stocks, f, config.score)
        top == Slice(s.out, config.output.top_count)
    IN  [limit_up_stocks |-> f, stocks |-> s.h, raised |-> s.raised,
         recommended_stocks |-> s.out, top_stocks |-> top.v]

\* C10: a second pass of filter, score and slice over the same list gives the
\* same quotes in the same order as the first, although the first attached
\* score, reason and continuous_limit_up in place; f12, f14, f2 and f3 of a
\* quote are never changed.
C10_SecondPassSame ==
    /\ InTrace("score") =>
          /\ SecondPass.limit_up_stocks = limit_up_stocks
          /\ SecondPass.raised = (error = "score")
          /\ SecondPass.stocks = stocks
    /\ InTrace("truncate") =>
          /\ SecondPass.recommended_stocks = recommended_stocks
          /\ SecondPass.top_stocks = top_stocks
    /\ \A i \in 1..Len(stocks) :
          /\ stocks[i].f12 = market.l[i].f12
          /\ stocks[i].f14 = market.l[i].f14
          /\ stocks[i].f2 = market.l[i].f2
          /\ stocks[i].f3 = market.l[i].f3

\* The first pass ranked three quotes, reordered them and kept two.
C10_Witness ==
    /\ pc = "done"
    /\ InTrace("truncate")
    /\ Len(recommended_stocks) = 3
    /\ recommended_stocks # limit_up_stocks
    /\ Len(top_stocks) = 2
    /\ \A k \in 1..3 : stocks[k].score # Absent

(***************************************************************************)
(* Properties of filter_stocks, under SpecFilter                           *)
(***************************************************************************)
Returned == {limit_up_stocks[k] : k \in 1..Len(limit_up_stocks)}

\* C1: with a numeric max_price and min_limit_up_percent, every quote that
\* filter_stocks returns has a price, parsed from f2 with the thousands
\* separators stripped, times 1000 if below 1 and divided by 1000 if above
\* 1000, of at most max_price, and a change, parsed from f3 with the percent
\* sign stripped and not rescaled, of at least min_limit_up_percent.
C1_PriceAndChange ==
    (InTrace("filter") /\ IsNumber(config.filter.max_price)
       /\ IsNumber(config.filter.min_limit_up_percent)) =>
       \A i \in Returned :
          LET f2 == stocks[i].f2
              f3 == stocks[i].f3
              parsed == IF IsStr(f2) THEN ParseFloat(Replace(f2.s, ",")) ELSE ToFloat(f2)
              price == IF parsed.v < 1 * SCALE THEN parsed.v * 1000
                       ELSE IF parsed.v > 1000 * SCALE THEN parsed.v \div 1000
                       ELSE parsed.v
              change == IF IsStr(f3) THEN ParseFloat(Replace(f3.s, "%")) ELSE ToFloat(f3)
          IN  /\ parsed.ok /\ price <= config.filter.max_price.n
              /\ change.ok /\ change.v >= config.filter.min_limit_up_percent.n

\* A quote with the raw price 0.05, which counts as 50, was returned under a
\* max_price of 60.
C1_Witness ==
    /\ InTrace("filter")
    /\ config.filter.max_price = PyInt(60)
    /\ \E i \in Returned : stocks[i].f2 = PyFloat(50)

\* C2: every quote that filter_stocks returns has a code that starts with one
\* of the configured prefixes, the default ["0", "6"] standing in for a
\* configured value that is empty or no list.
C2_PrefixAdmission ==
    InTrace("filter") =>
       LET configured == config_file.filter.d.stock_prefix
           effective == IF IsList(configured) /\ Len(configured.l) > 0
                        THEN configured.l ELSE <<Str(<<"0">>), Str(<<"6">>)>>
       IN  \A i \in Returned :
              /\ IsStr(stocks[i].f12)
              /\ \E j \in 1..Len(effective) :
                    /\ IsStr(effective[j])
                    /\ StartsWith(stocks[i].f12.s, effective[j].s)

HasST(stock) == IsStr(stock.f14) /\ ContainsST(stock.f14.s)

\* C3: with exclude_st no returned quote has "ST" in its name; without it a
\* quote with "ST" in its name is returned exactly when it passes the prefix
\* stage, the board stage (when that is on), the price stage and the limit-up
\* stage.
C3_SpecialTreatment ==
    InTrace("filter") =>
       LET cfg == FilterSettings(config.filter)
       IN  IF Truthy(config.filter.exclude_st)
           THEN \A i \in Returned : ~HasST(stocks[i])
           ELSE \A i \in 1..Len(stocks) :
                   HasST(stocks[i]) =>
                      (i \in Returned <=>
                          /\ PrefixStage(stocks[i], cfg.stock_prefix)
                          /\ cfg.exclude_sci_tech_board => BoardStage(stocks[i])
                          /\ PriceStage(stocks[i], cfg.max_price)
                          /\ LimitUpStage(stocks[i], cfg.min_limit_up_percent))


(***************************************************************************)
(* Properties of load_config, under SpecConfig                             *)
(***************************************************************************)
\* A number of the configuration file: an int or a float.
IsJsonNumber(v) == v.t \in {"int", "float"}

FilterValid(f) ==
    /\ IsJsonNumber(f.max_price) /\ f.max_price.n > 0
    /\ IsJsonNumber(f.min_limit_up_percent)
    /\ 0 <= f.min_limit_up_percent.n /\ f.min_limit_up_percent.n <= 20 * SCALE
    /\ IsBool(f.exclude_st)
    /\ IsBool(f.exclude_sci_tech_board)
    /\ IsList(f.stock_prefix) /\ f.stock_prefix.l # <<>>

ScoreValid(s) ==
    \A i \in 1..Len(ScoreKeys) : IsJsonNumber(s[ScoreKeys[i]]) /\ s[ScoreKeys[i]].n >= 0

OutputValid(o) ==
    /\ o.top_count.t = "int" /\ o.top_count.n > 0
    /\ IsStr(o.output_dir) /\ o.output_dir.s # <<>>
    /\ IsBool(o.auto_open_excel)

\* C8: whatever the configuration file holds, every value of the configuration
\* that load_config returns keeps its rule: max_price a positive number,
\* min_limit_up_percent in [0, 20], the two exclusions booleans, stock_prefix a
\* non-empty list, the six score settings non-negative numbers, top_count a
\* positive integer, output_dir a non-empty string, auto_open_excel a boolean.
C8_ConfigValid ==
    pc # "new" =>
       /\ FilterValid(config.filter)
       /\ ScoreValid(config.score)
       /\ OutputValid(config.output)

(***************************************************************************)
(* Properties of the rationale, under Spec                                 *)
(***************************************************************************)
\* The clauses in the order of the rationale.
ClauseOrder == <<"volume_ratio", "turnover_rate", "continuous_limit_up",
                 "market_cap", "amount">>

ClausePos(clause) == CHOOSE k \in 1..Len(ClauseOrder) : ClauseOrder[k] = clause

\* The trigger of a clause, from the raw fields of the quote.
Trigger(stock, clause) ==
    LET volume_ratio == ToFloat(stock.f10).v
        turnover_rate == ToFloat(stock.f8).v
        amount == ToFloat(stock.f6).v \div Yi
        cap == ToFloat(stock.f20).v \div Yi
        days == stock.continuous_limit_up.n
    IN  CASE clause = "volume_ratio" -> 2 * volume_ratio > 3 * SCALE
          [] clause = "turnover_rate" -> turnover_rate > 3 * SCALE
          [] clause = "continuous_limit_up" -> days > 1 * SCALE
          [] clause = "market_cap" -> cap >= 10 * SCALE /\ cap <= 50 * SCALE
          [] clause = "amount" -> amount > 5 * SCALE

Triggered(stock) == {k \in 1..Len(ClauseOrder) : Trigger(stock, ClauseOrder[k])}

\* C11: the rationale of every scored candidate holds exactly the clauses
\* whose trigger holds (volume ratio > 1.5, turnover rate > 3, consecutive
\* days > 1, float cap in [10, 50], amount > 5), each once and in this order;
\* it is the fallback "composite score" exactly when no trigger holds, and the
\* clause of the consecutive days never appears.
C11_Rationale ==
    \A i \in 1..Len(stocks) :
       stocks[i].reason # Absent =>
          LET reason == stocks[i].reason.s
              fallback == reason = <<"composite score">>
          IN  /\ fallback <=> Triggered(stocks[i]) = {}
              /\ ~fallback =>
                    /\ \A k \in 1..Len(reason) :
                          \E j \in Triggered(stocks[i]) : reason[k] = ClauseOrder[j]
                    /\ \A j \in Triggered(stocks[i]) :
                          \E k \in 1..Len(reason) : reason[k] = ClauseOrder[j]
                    /\ \A a, b \in 1..Len(reason) :
                          a < b => ClausePos(reason[a]) < ClausePos(reason[b])
              /\ \A k \in 1..Len(reason) : reason[k] # "continuous_limit_up"

\* A run has scored one quote with the fallback, one with every clause but
\* that of the consecutive days, and one whose amount is exactly 5 and whose
\* cap is exactly 10.
C11_Witness ==
    /\ Scored
    /\ \E i \in 1..Len(stocks) : stocks[i].reason = Str(<<"composite score">>)
    /\ \E i \in 1..Len(stocks) :
          stocks[i].reason = Str(<<"volume_ratio", "turnover_rate", "market_cap", "amount">>)
    /\ \E i \in 1..Len(stocks) :
          /\ stocks[i].reason # Absent
          /\ ToFloat(stocks[i].f6).v \div Yi = 5 * SCALE
          /\ ToFloat(stocks[i].f20).v \div Yi = 10 * SCALE
          /\ stocks[i].reason = Str(<<"volume_ratio", "turnover_rate", "market_cap">>)

(***************************************************************************)
(* The steps of run and their failures, under SpecSteps                    *)
(***************************************************************************)
\* Quotes and elements that make each step of run fail or end the run: the
\* quote of the scenario, a quote whose f3 makes score_stocks raise, one whose
\* f6 makes save_to_excel fail, one the filter drops, and a null element,
\* for which filter_stocks raises.
StepsPool ==
    {Quote(Str(<<"0", "0", "1">>), Str(<<"A">>), PyFloat(10500), PyInt(10),
           PyInt(2), PyInt(4), PyInt(600), PyInt(3000)),
     Quote(Str(<<"0", "0", "5">>), Str(<<"E">>), PyInt(9), Str(<<"1", "0", ".", "5", "%">>),
           PyInt(2), PyInt(4), PyInt(600), PyInt(3000)),
     Quote(Str(<<"0", "0", "6">>), Str(<<"F">>), PyInt(9), PyInt(10),
           PyInt(3), PyInt(4), Str(<<"6", "0", "0">>), PyInt(3000)),
     Quote(Str(<<"0", "0", "7">>), Str(<<"G">>), PyInt(9), PyInt(5),
           PyInt(2), PyInt(4), PyInt(600), PyInt(3000)),
     None}

StepsOutputGroups ==
    {NoOutput}
    \cup DictGroups({[AllAbsent(default_output) EXCEPT !.top_count = PyInt(1)],
                     [AllAbsent(default_output) EXCEPT !.auto_open_excel = Bool(FALSE)]})

StepsFiles == JsonFiles({NoFilter}, {NoScore}, StepsOutputGroups)

InitSteps == InitWith(StepsFiles, StepsPool, MaxStocks)

SpecSteps == InitSteps /\ [][Next]_vars

\* The steps of run in the order of its code.
StepOrder == <<"fetch", "filter", "score", "truncate", "save", "open">>

\* run has caught an exception of one of its steps.
RunCaught == error # "none"

\* What holds in every state of a run.
StepsInvariant ==
    /\ pc # "raised"
    /\ RunCaught => pc = "done"
    /\ Len(trace) <= Len(StepOrder)
    /\ \A k \in 1..Len(trace) : trace[k] = StepOrder[k]
    /\ InTrace("save") =>
          /\ IsList(market) /\ market.l # <<>>
          /\ limit_up_stocks # <<>>
          /\ top_stocks # <<>>
    /\ InTrace("open") =>
          /\ InTrace("save")
          /\ pc = "done"
          /\ ~RunCaught

\* What the step of the automatic opening leaves as it was.
OpenKeepsRun ==
    pc = "open" =>
       /\ excel_file' = excel_file
       /\ excel_rows' = excel_rows
       /\ top_stocks' = top_stocks
       /\ error' = error
       /\ pc' = "done"

\* C12: no exception leaves run, whichever step fails: a failing step ends the
\* run by a return.  The steps run in the order fetch, filter, score, truncate,
\* write, open, each at most once; save_to_excel is called only after a fetch
\* and a filter that gave a non-empty list; the automatic opening comes only
\* after the write has returned, and its failure leaves the file, its rows and
\* the outcome of the run as they were.
C12_RunSteps == []StepsInvariant /\ [][OpenKeepsRun]_vars

\* A run went through all six steps, wrote the file, and the opening failed.
C12_Witness ==
    /\ pc = "done"
    /\ trace = StepOrder
    /\ excel_file = "file"
    /\ excel_rows # <<>>
    /\ ~opened
    /\ error = "none"
====
